---- MODULE Spec2Model ----
(***************************************************************************)
(* A model of the monitoring engine of iis_monitor.py: the configuration   *)
(* maps of ConfigManager, the state tables and the MonitorStatus of        *)
(* IISMonitor, the monitor loop thread(s) and the foreground handlers      *)
(* (start, stop, get_status_snapshot, save_web_config_json,                *)
(* save_pool_config_json, save_global), and the log buffer of LogManager.  *)
(*                                                                         *)
(* Threads interleave at the granularity of the steps below.  A block that *)
(* runs under IISMonitor.lock is one step, except that a restart (stop     *)
(* command, delay, start command) is a step of its own, followed by the    *)
(* logging of its result; the loop thread keeps the lock across both.      *)
(***************************************************************************)
EXTENDS Integers, Sequences, FiniteSets, TLC

\* ------------------------------------------------------------------ bounds
\* number of start() calls that pass the running check (= loop threads spawned)
MaxStarts == 2
\* number of probes performed, all loop threads together
MaxProbes == 2
\* number of probes in the example run of one site (ExampleSpec)
ExampleProbes == 6
\* number of calls of the configuration handlers (site map, pool map, global
\* settings) and of get_status_snapshot
MaxCalls == 1
\* number of calls of the configuration handlers in StoreSpec
StoreCalls == 2
\* the lines the log buffer keeps (MAX_LOG_LINES, 200 in the source) and the
\* number of log() calls in LogSpec
MaxLogLines == 3
LogCalls == 5
\* the largest count get_recent_logs is asked in LogSpec
MaxCount == 4
\* number of probes in FairSpec
FairProbes == 1

\* ------------------------------------------------------------------ names
SiteNames == {"s1", "s2"}
PoolNames == {"p1"}
\* the foreground callers (Gradio runs each event handler on a worker thread);
\* Spec and ExampleSpec follow the loop threads against one of them, StoreSpec
\* follows two of them in the configuration handlers
Callers == {"ui1", "ui2"}
Foreground == {"ui1"}
Threads == 1..MaxStarts

\* a key that a state dictionary does not hold (the lazily created entry of
\* _check_cycle has neither "last_check" nor "total_checks")
NoKey == -1
Missing == "missing"
\* the "-" that _init_status puts in last_check
Never == "-"
\* the value of current_time / start_time: a formatted clock reading
Stamp == "time"
NoTime == "None"

\* ------------------------------------------------------------------ state
VARIABLES
  websites,        \* ConfigManager.websites: insertion-ordered dict, a sequence of [name, enabled]
  app_pools,       \* ConfigManager.app_pools: a sequence of [name, enabled, auto_restart]
  max_failures,    \* ConfigManager.max_failures
  global_auto_restart, \* ConfigManager.global_auto_restart
  config_file,     \* what ConfigManager.save() last wrote
  running,         \* IISMonitor.running
  stop_event,      \* IISMonitor.stop_event (set or not)
  monitor_thread,  \* IISMonitor.monitor_thread: 0 (None) or a thread
  lock,            \* IISMonitor.lock: 0 (free) or the loop thread that holds it
  status,          \* IISMonitor.status: the MonitorStatus object
  website_status,  \* IISMonitor.website_status: name -> state dictionary
  apppool_status,  \* IISMonitor.apppool_status
  tpc,             \* each loop thread's position
  tloc,            \* each loop thread's locals: dict iterator (used, pos), current name and
                   \* verdict, and the names the running for loop has probed (seen)
  cpc,             \* each foreground caller's position
  cloc,            \* each foreground caller's locals: the document, the counts, the data to save
  cret,            \* each foreground caller's last return value
  snap,            \* the snapshot get_status_snapshot last returned
  nstarts, nprobes, ncalls, \* what the bounds count
  limit,           \* the bounds of this run: on nprobes (probes), on ncalls (calls) and
                   \* on the lines the log buffer keeps (lines)
  memory_logs,     \* LogManager.memory_logs: the buffered log entries, oldest first
  recent           \* what get_recent_logs last returned, and the count it was asked

vars == <<websites, app_pools, max_failures, global_auto_restart, config_file,
          running, stop_event, monitor_thread, lock, status, website_status,
          apppool_status, tpc, tloc, cpc, cloc, cret, snap,
          nstarts, nprobes, ncalls, limit, memory_logs, recent>>

configVars == <<websites, app_pools, max_failures, global_auto_restart, config_file>>
budgetVars == <<nstarts, nprobes, ncalls, limit>>
callerVars == <<cpc, cloc, cret>>
threadVars == <<tpc, tloc>>
logVars == <<memory_logs, recent>>


\* ------------------------------------------------------------------ helpers
\* the keys of a dict kept as a sequence of entries
Names(d) == {d[i].name : i \in 1..Len(d)}

\* d[e.name] = e on an insertion-ordered dict: an existing key keeps its place
DictSet(d, e) ==
  IF e.name \in Names(d)
    THEN [i \in 1..Len(d) |-> IF d[i].name = e.name THEN e ELSE d[i]]
    ELSE Append(d, e)

\* the entry _init_status seeds
FreshState == [status |-> "unknown", fail_count |-> 0, last_check |-> Never, total_checks |-> 0]

\* the entry _check_cycle creates when the name has none: two keys only
LazyState == [status |-> "unknown", fail_count |-> 0, last_check |-> Missing, total_checks |-> NoKey]

\* MonitorStatus() and the MonitorStatus(status="running", start_time=now) of start()
StoppedStatus ==
  [status |-> "stopped", start_time |-> NoTime, total_checks |-> 0,
   total_failures |-> 0, total_restarts |-> 0, uptime_seconds |-> 0]

RunningStatus == [StoppedStatus EXCEPT !.status = "running", !.start_time = Stamp]

\* website_status = {} of __init__
EmptyTable == [n \in {} |-> FreshState]

\* one loop of _init_status: an entry for every configured name that has none
SeedTable(table, cfg) ==
  [n \in (DOMAIN table) \cup Names(cfg) |-> IF n \in DOMAIN table THEN table[n] ELSE FreshState]

\* "if name not in table: table[name] = {status, fail_count}" of _check_cycle
WithLazy(table, name) ==
  IF name \in DOMAIN table THEN table
  ELSE [n \in (DOMAIN table) \cup {name} |-> IF n = name THEN LazyState ELSE table[n]]

\* table[name] = stat
Put(table, name, stat) == [table EXCEPT ![name] = stat]

\* the data ConfigManager.save() serializes
ConfigData(w, p, mf, gar) ==
  [websites |-> w, app_pools |-> p, max_failures |-> mf, global_auto_restart |-> gar]

\* a handler's locals before its call: nothing submitted, nothing counted
NoCall ==
  [doc |-> <<>>, next |-> 0, ok |-> 0, err |-> 0,
   data |-> ConfigData(<<>>, <<>>, 0, FALSE), after |-> "none"]

\* no snapshot in a caller's hands
NoSnapshot == [taken |-> FALSE]

NoLocals == [used |-> 0, pos |-> 0, name |-> "none", res |-> "none", seen |-> <<>>]

\* a new iterator over dict d: dict.items() remembers the size it saw
NewIter(d) == [used |-> Len(d), pos |-> 1, name |-> "none", res |-> "none", seen |-> <<>>]

\* thread t is inside logger.log, holding LogManager.lock ("with self.lock:"),
\* to log the result of a restart
InLog(t) == tpc[t] \in {"site_log_ok", "site_log_fail", "pool_log_ok", "pool_log_fail"}

\* LogManager.lock is free: a log() call can enter its block
LogLockFree == \A t \in Threads : ~InLog(t)

\* no call of get_recent_logs has returned yet
NoLines == [count |-> -1, lines |-> <<>>]

\* LogManager.log(message, level), the block under LogManager.lock:
\* memory_logs.append(log_entry); if len(memory_logs) > MAX_LOG_LINES: pop(0).
\* The capacity is limit.lines: the specifications of the engine keep no line
\* (capacity 0: every entry appended is popped at once), those of the log do
Log(message, level) ==
  LET appended == Append(memory_logs, [level |-> level, message |-> message])
  IN IF Len(appended) > limit.lines THEN Tail(appended) ELSE appended

\* _handle_failure decides to restart
RestartDue(stat, cfg, name) ==
  /\ stat.fail_count >= max_failures
  /\ global_auto_restart
  /\ name \in Names(cfg)

\* ------------------------------------------------------------------ Init
\* The persisted configurations ConfigManager.load() reads at construction:
\* one enabled site and no pool, or no site and one enabled pool
LoadedConfigs ==
  { [websites |-> <<[name |-> "s1", enabled |-> TRUE]>>, app_pools |-> <<>>],
    [websites |-> <<>>,
     app_pools |-> <<[name |-> "p1", enabled |-> TRUE, auto_restart |-> TRUE]>>] }

\* The state after IISMonitor(): ConfigManager.load() has read the persisted
\* configuration (a threshold of two failures, automatic restarts allowed),
\* and _init_status has seeded an entry for every configured name.
Init ==
  /\ \E cfg \in LoadedConfigs :
       /\ websites = cfg.websites
       /\ app_pools = cfg.app_pools
  /\ max_failures = 2
  /\ global_auto_restart = TRUE
  /\ config_file = ConfigData(websites, app_pools, max_failures, global_auto_restart)
  /\ running = FALSE
  /\ stop_event = FALSE
  /\ monitor_thread = 0
  /\ lock = 0
  /\ status = StoppedStatus
  /\ website_status = SeedTable(EmptyTable, websites)
  /\ apppool_status = SeedTable(EmptyTable, app_pools)
  /\ tpc = [t \in Threads |-> "none"]
  /\ tloc = [t \in Threads |-> NoLocals]
  /\ cpc = [c \in Callers |-> "idle"]
  /\ cloc = [c \in Callers |-> NoCall]
  /\ cret = [c \in Callers |-> "none"]
  /\ snap = NoSnapshot
  /\ nstarts = 0 /\ nprobes = 0 /\ ncalls = 0
  /\ limit = [probes |-> MaxProbes, calls |-> MaxCalls, lines |-> 0]
  /\ memory_logs = <<>>
  /\ recent = NoLines

\* ------------------------------------------------------------------ the monitor loop
\* a variant of the loop test that gives up after an exception escaped a cycle
LoopTopGivesUp(t) ==
  /\ tpc[t] \in {"top", "wait", "backoff"}
  /\ IF running /\ ~stop_event /\ tpc[t] # "backoff"
       THEN /\ tpc' = [tpc EXCEPT ![t] = "sites"]
            /\ tloc' = [tloc EXCEPT ![t] = NewIter(websites)]
       ELSE /\ tpc' = [tpc EXCEPT ![t] = "done"]
            /\ tloc' = [tloc EXCEPT ![t] = NoLocals]
  /\ UNCHANGED <<configVars, running, stop_event, monitor_thread, lock, status,
                 website_status, apppool_status, callerVars, snap, budgetVars, logVars>>

\* while self.running and not self.stop_event.is_set(): ... _check_cycle() starts
\* with the iterator over the site map. The test is taken by a thread just
\* spawned ("top"), when stop_event.wait(check_interval) returns ("wait": the
\* event was set or the interval ended) and when the time.sleep(5) of the
\* except branch of _monitor_loop ends ("backoff").
LoopTop(t) ==
  /\ tpc[t] \in {"top", "wait", "backoff"}
  /\ IF running /\ ~stop_event
       THEN /\ tpc' = [tpc EXCEPT ![t] = "sites"]
            /\ tloc' = [tloc EXCEPT ![t] = NewIter(websites)]
       ELSE /\ tpc' = [tpc EXCEPT ![t] = "done"]
            /\ tloc' = [tloc EXCEPT ![t] = NoLocals]
  /\ UNCHANGED <<configVars, running, stop_event, monitor_thread, lock, status,
                 website_status, apppool_status, callerVars, snap, budgetVars, logVars>>

\* one next() of a dict iterator over d, then the loop body up to the probe call:
\* RuntimeError when the size changed (it escapes _check_cycle and the except
\* branch of _monitor_loop logs it), the following loop at the end, "continue"
\* on a disabled entry, else the probe of the entry starts
IterStep(t, d, probePc, endPc, endLoc) ==
  LET it == tloc[t] IN
  IF Len(d) # it.used
    THEN /\ tpc' = [tpc EXCEPT ![t] = "backoff"]
         /\ tloc' = [tloc EXCEPT ![t] = NoLocals]
         /\ nprobes' = nprobes
         /\ LogLockFree
         /\ memory_logs' = Log(<<"loop error", "-">>, "ERROR")
    ELSE IF it.pos > Len(d)
      THEN /\ tpc' = [tpc EXCEPT ![t] = endPc]
           /\ tloc' = [tloc EXCEPT ![t] = endLoc]
           /\ nprobes' = nprobes
           /\ memory_logs' = memory_logs
      ELSE IF ~d[it.pos].enabled
        THEN /\ tpc' = tpc
             /\ tloc' = [tloc EXCEPT ![t].pos = @ + 1]
             /\ nprobes' = nprobes
             /\ memory_logs' = memory_logs
        ELSE /\ nprobes < limit.probes
             /\ memory_logs' = memory_logs
             /\ tpc' = [tpc EXCEPT ![t] = probePc]
             /\ tloc' = [tloc EXCEPT ![t].pos = @ + 1, ![t].name = d[it.pos].name, ![t].res = "none",
                                         ![t].seen = Append(@, d[it.pos].name)]
             /\ nprobes' = nprobes + 1

\* for name, cfg in self.config_manager.websites.items(): if not cfg.enabled: continue
SiteNext(t) ==
  /\ tpc[t] = "sites"
  /\ IterStep(t, websites, "site_probe", "pools", NewIter(app_pools))
  /\ UNCHANGED <<configVars, running, stop_event, monitor_thread, lock, status,
                 website_status, apppool_status, callerVars, snap, nstarts, ncalls, limit, recent>>

\* _handle_failure(name, type_name, stat), called with the lock held: counts the
\* failure, logs the warning when the threshold is reached and restarts are
\* allowed (LogManager.lock is free then: a thread inside log() for a restart
\* keeps the engine's lock), and either begins the restart (the lock stays
\* held) or returns
HandleFailure(t, stat, cfg, restartPc, nextPc) ==
  /\ status' = [status EXCEPT !.total_failures = @ + 1]
  /\ memory_logs' = IF stat.fail_count >= max_failures /\ global_auto_restart
                       THEN Log(<<"restarting", tloc[t].name>>, "WARNING")
                       ELSE memory_logs
  /\ IF RestartDue(stat, cfg, tloc[t].name)
       THEN /\ lock' = t
            /\ tpc' = [tpc EXCEPT ![t] = restartPc]
       ELSE /\ lock' = 0
            /\ tpc' = [tpc EXCEPT ![t] = nextPc]

\* requests.get (or the url lookup, or the import) raises: the except branch is next
SiteProbeRaises(t) ==
  /\ tpc[t] = "site_probe"
  /\ tpc' = [tpc EXCEPT ![t] = "site_exc"]
  /\ tloc' = [tloc EXCEPT ![t].res = "err"]
  /\ UNCHANGED <<configVars, running, stop_event, monitor_thread, lock, status,
                 website_status, apppool_status, callerVars, snap, budgetVars, logVars>>

\* requests.get returned: is_ok = (resp.status_code == cfg.expected_status)
SiteProbeReturns(t) ==
  /\ tpc[t] = "site_probe"
  /\ tpc' = [tpc EXCEPT ![t] = "site_acct"]
  /\ \E r \in {"ok", "bad"} : tloc' = [tloc EXCEPT ![t].res = r]
  /\ UNCHANGED <<configVars, running, stop_event, monitor_thread, lock, status,
                 website_status, apppool_status, callerVars, snap, budgetVars, logVars>>

\* the accounting block under the lock
SiteAccount(t) ==
  /\ tpc[t] = "site_acct"
  /\ lock = 0
  /\ LET is_ok == (tloc[t].res = "ok") IN
       LET name == tloc[t].name
           table == WithLazy(website_status, name)
           stat1 == [table[name] EXCEPT !.last_check = Stamp]
           stat2 == [stat1 EXCEPT !.total_checks = @ + 1]
           bad == [stat2 EXCEPT !.status = "error", !.fail_count = @ + 1]
       IN
       IF stat1.total_checks = NoKey
         THEN \* stat["total_checks"] += 1 raises KeyError: out of the with block
              /\ website_status' = Put(table, name, stat1)
              /\ tpc' = [tpc EXCEPT ![t] = "site_exc"]
              /\ UNCHANGED <<status, lock, memory_logs>>
         ELSE IF is_ok
           THEN /\ website_status' = Put(table, name, [stat2 EXCEPT !.status = "ok", !.fail_count = 0])
                /\ tpc' = [tpc EXCEPT ![t] = "sites"]
                /\ UNCHANGED <<status, lock, memory_logs>>
           ELSE /\ website_status' = Put(table, name, bad)
                /\ HandleFailure(t, bad, websites, "site_restart", "sites")
  /\ UNCHANGED <<configVars, running, stop_event, monitor_thread, apppool_status,
                 tloc, callerVars, snap, budgetVars, recent>>

\* except Exception: the second block under the lock (no total_checks here)
SiteExcept(t) ==
  /\ tpc[t] = "site_exc"
  /\ lock = 0
  /\ LET name == tloc[t].name
         table == WithLazy(website_status, name)
         bad == [table[name] EXCEPT !.status = "error", !.fail_count = @ + 1, !.last_check = Stamp]
     IN /\ website_status' = Put(table, name, bad)
        /\ HandleFailure(t, bad, websites, "site_restart", "sites")
  /\ UNCHANGED <<configVars, running, stop_event, monitor_thread, apppool_status,
                 tloc, callerVars, snap, budgetVars, recent>>

\* a variant of RestartEnd that resets fail_count whatever the restart returned
RestartEndAlways(table, name, success) == [table EXCEPT ![name].fail_count = 0]

\* the end of a restart inside _handle_failure: restart_website / restart_app_pool
\* returned; only a success counts and resets fail_count
RestartEnd(table, name, success) ==
  IF success THEN [table EXCEPT ![name].fail_count = 0] ELSE table

RestartCount(st, success) ==
  IF success THEN [st EXCEPT !.total_restarts = @ + 1] ELSE st

\* restart_website(name) returns: total_restarts += 1 on success; the result is
\* logged next (logger.log takes LogManager.lock), still under the engine's lock
SiteRestartDone(t) ==
  /\ tpc[t] = "site_restart"
  /\ lock = t
  /\ \E success \in BOOLEAN :
       /\ status' = RestartCount(status, success)
       /\ tpc' = [tpc EXCEPT ![t] = IF success THEN "site_log_ok" ELSE "site_log_fail"]
  /\ UNCHANGED <<configVars, running, stop_event, monitor_thread, lock, website_status,
                 apppool_status, tloc, callerVars, snap, budgetVars, logVars>>

\* a variant of SiteRestartLogged that leaves the with block without releasing
\* the engine's lock
SiteRestartLoggedKeepsLock(t) ==
  /\ tpc[t] \in {"site_log_ok", "site_log_fail"}
  /\ lock = t
  /\ memory_logs' = IF tpc[t] = "site_log_ok"
                       THEN Log(<<"restarted", tloc[t].name>>, "INFO")
                       ELSE Log(<<"restart failed", tloc[t].name>>, "ERROR")
  /\ website_status' = RestartEnd(website_status, tloc[t].name, tpc[t] = "site_log_ok")
  /\ lock' = lock
  /\ tpc' = [tpc EXCEPT ![t] = "sites"]
  /\ UNCHANGED <<configVars, running, stop_event, monitor_thread, status, apppool_status,
                 tloc, callerVars, snap, budgetVars, recent>>

\* logger.log returns; "if restart_success: stat['fail_count'] = 0"; the with
\* block of _check_cycle ends
SiteRestartLogged(t) ==
  /\ tpc[t] \in {"site_log_ok", "site_log_fail"}
  /\ lock = t
  /\ memory_logs' = IF tpc[t] = "site_log_ok"
                       THEN Log(<<"restarted", tloc[t].name>>, "INFO")
                       ELSE Log(<<"restart failed", tloc[t].name>>, "ERROR")
  /\ website_status' = RestartEnd(website_status, tloc[t].name, tpc[t] = "site_log_ok")
  /\ lock' = 0
  /\ tpc' = [tpc EXCEPT ![t] = "sites"]
  /\ UNCHANGED <<configVars, running, stop_event, monitor_thread, status, apppool_status,
                 tloc, callerVars, snap, budgetVars, recent>>

\* for name, cfg in self.config_manager.app_pools.items(): if not cfg.enabled: continue
PoolNext(t) ==
  /\ tpc[t] = "pools"
  /\ IterStep(t, app_pools, "pool_probe", "uptime_chk", NoLocals)
  /\ UNCHANGED <<configVars, running, stop_event, monitor_thread, lock, status,
                 website_status, apppool_status, callerVars, snap, nstarts, ncalls, limit, recent>>

\* get_app_pool_state returned (it never raises: Started, Stopped or Unknown):
\* is_ok = (state == "Started")
PoolProbeReturns(t) ==
  /\ tpc[t] = "pool_probe"
  /\ tpc' = [tpc EXCEPT ![t] = "pool_acct"]
  /\ \E r \in {"ok", "bad"} : tloc' = [tloc EXCEPT ![t].res = r]
  /\ UNCHANGED <<configVars, running, stop_event, monitor_thread, lock, status,
                 website_status, apppool_status, callerVars, snap, budgetVars, logVars>>

\* the accounting block under the lock; a KeyError in it is caught by the
\* except branch of the pool loop, which only logs
PoolAccount(t) ==
  /\ tpc[t] = "pool_acct"
  /\ lock = 0
  /\ LET is_ok == (tloc[t].res = "ok") IN
       LET name == tloc[t].name
           table == WithLazy(apppool_status, name)
           stat1 == [table[name] EXCEPT !.last_check = Stamp]
           stat2 == [stat1 EXCEPT !.total_checks = @ + 1]
           bad == [stat2 EXCEPT !.status = "stopped", !.fail_count = @ + 1]
       IN
       IF stat1.total_checks = NoKey
         THEN /\ apppool_status' = Put(table, name, stat1)
              /\ tpc' = [tpc EXCEPT ![t] = "pools"]
              /\ memory_logs' = Log(<<"pool check error", name>>, "ERROR")
              /\ UNCHANGED <<status, lock>>
         ELSE IF is_ok
           THEN /\ apppool_status' = Put(table, name, [stat2 EXCEPT !.status = "running", !.fail_count = 0])
                /\ tpc' = [tpc EXCEPT ![t] = "pools"]
                /\ UNCHANGED <<status, lock, memory_logs>>
           ELSE /\ apppool_status' = Put(table, name, bad)
                /\ HandleFailure(t, bad, app_pools, "pool_restart", "pools")
  /\ UNCHANGED <<configVars, running, stop_event, monitor_thread, website_status,
                 tloc, callerVars, snap, budgetVars, recent>>

\* restart_app_pool(name) returns
PoolRestartDone(t) ==
  /\ tpc[t] = "pool_restart"
  /\ lock = t
  /\ \E success \in BOOLEAN :
       /\ status' = RestartCount(status, success)
       /\ tpc' = [tpc EXCEPT ![t] = IF success THEN "pool_log_ok" ELSE "pool_log_fail"]
  /\ UNCHANGED <<configVars, running, stop_event, monitor_thread, lock, website_status,
                 apppool_status, tloc, callerVars, snap, budgetVars, logVars>>

PoolRestartLogged(t) ==
  /\ tpc[t] \in {"pool_log_ok", "pool_log_fail"}
  /\ lock = t
  /\ memory_logs' = IF tpc[t] = "pool_log_ok"
                       THEN Log(<<"restarted", tloc[t].name>>, "INFO")
                       ELSE Log(<<"restart failed", tloc[t].name>>, "ERROR")
  /\ apppool_status' = RestartEnd(apppool_status, tloc[t].name, tpc[t] = "pool_log_ok")
  /\ lock' = 0
  /\ tpc' = [tpc EXCEPT ![t] = "pools"]
  /\ UNCHANGED <<configVars, running, stop_event, monitor_thread, status, website_status,
                 tloc, callerVars, snap, budgetVars, recent>>

\* if self.status.start_time:
UptimeCheck(t) ==
  /\ tpc[t] = "uptime_chk"
  /\ tpc' = [tpc EXCEPT ![t] = IF status.start_time # NoTime THEN "uptime_parse" ELSE "wait"]
  /\ UNCHANGED <<configVars, running, stop_event, monitor_thread, lock, status,
                 website_status, apppool_status, tloc, callerVars, snap, budgetVars, logVars>>

\* a variant of UptimeParse whose TypeError marks the engine as failed
UptimeParseMarksError(t) ==
  /\ tpc[t] = "uptime_parse"
  /\ IF status.start_time # NoTime
       THEN /\ tpc' = [tpc EXCEPT ![t] = "uptime_set"]
            /\ status' = status
       ELSE /\ tpc' = [tpc EXCEPT ![t] = "backoff"]
            /\ status' = [status EXCEPT !.status = "error"]
  /\ status.start_time = NoTime => LogLockFree
  /\ memory_logs' = IF status.start_time # NoTime THEN memory_logs
                     ELSE Log(<<"loop error", "-">>, "ERROR")
  /\ UNCHANGED <<configVars, running, stop_event, monitor_thread, lock,
                 website_status, apppool_status, tloc, callerVars, snap, budgetVars, recent>>

\* start_dt = datetime.strptime(self.status.start_time, ...): TypeError on
\* None, which the except branch of _monitor_loop logs
UptimeParse(t) ==
  /\ tpc[t] = "uptime_parse"
  /\ tpc' = [tpc EXCEPT ![t] = IF status.start_time # NoTime THEN "uptime_set" ELSE "backoff"]
  /\ status.start_time = NoTime => LogLockFree
  /\ memory_logs' = IF status.start_time # NoTime THEN memory_logs
                     ELSE Log(<<"loop error", "-">>, "ERROR")
  /\ UNCHANGED <<configVars, running, stop_event, monitor_thread, lock, status,
                 website_status, apppool_status, tloc, callerVars, snap, budgetVars, recent>>

\* self.status.uptime_seconds = (now - start_dt).total_seconds(): a positive
\* number of seconds (1 stands for it), written without the lock
UptimeSet(t) ==
  /\ tpc[t] = "uptime_set"
  /\ status' = [status EXCEPT !.uptime_seconds = 1]
  /\ tpc' = [tpc EXCEPT ![t] = "wait"]
  /\ UNCHANGED <<configVars, running, stop_event, monitor_thread, lock,
                 website_status, apppool_status, tloc, callerVars, snap, budgetVars, logVars>>

\* ------------------------------------------------------------------ start() and stop()
\* a variant of StartCheck that goes on without looking at the run flag
StartCheckAlways(c) ==
  /\ cpc[c] = "idle"
  /\ nstarts < MaxStarts
  /\ nstarts' = nstarts + 1
  /\ cpc' = [cpc EXCEPT ![c] = "start_flag"]
  /\ UNCHANGED <<configVars, running, stop_event, monitor_thread, lock, status,
                 website_status, apppool_status, threadVars, cloc, cret, snap,
                 nprobes, ncalls, limit, logVars>>

\* if self.running: return False, "already running"
StartCheck(c) ==
  /\ cpc[c] = "idle"
  /\ IF running
       THEN /\ cret' = [cret EXCEPT ![c] = "start:already_running"]
            /\ cpc' = [cpc EXCEPT ![c] = "return"]
            /\ nstarts' = nstarts
       ELSE /\ nstarts < MaxStarts
            /\ nstarts' = nstarts + 1
            /\ cpc' = [cpc EXCEPT ![c] = "start_flag"]
            /\ cret' = cret
  /\ UNCHANGED <<configVars, running, stop_event, monitor_thread, lock, status,
                 website_status, apppool_status, threadVars, cloc, snap,
                 nprobes, ncalls, limit, logVars>>

\* self.running = True
StartFlag(c) ==
  /\ cpc[c] = "start_flag"
  /\ running' = TRUE
  /\ cpc' = [cpc EXCEPT ![c] = "start_status"]
  /\ UNCHANGED <<configVars, stop_event, monitor_thread, lock, status,
                 website_status, apppool_status, threadVars, cloc, cret, snap, budgetVars, logVars>>

\* self.stop_event.clear(); self.status = MonitorStatus(status="running", start_time=now)
StartStatus(c) ==
  /\ cpc[c] = "start_status"
  /\ stop_event' = FALSE
  /\ status' = RunningStatus
  /\ cpc' = [cpc EXCEPT ![c] = "start_init"]
  /\ UNCHANGED <<configVars, running, monitor_thread, lock,
                 website_status, apppool_status, threadVars, cloc, cret, snap, budgetVars, logVars>>

\* _init_status(): with self.lock, seed the names that have no entry
InitStatus ==
  /\ lock = 0
  /\ website_status' = SeedTable(website_status, websites)
  /\ apppool_status' = SeedTable(apppool_status, app_pools)

StartInit(c) ==
  /\ cpc[c] = "start_init"
  /\ InitStatus
  /\ cpc' = [cpc EXCEPT ![c] = "start_spawn"]
  /\ UNCHANGED <<configVars, running, stop_event, monitor_thread, lock, status,
                 threadVars, cloc, cret, snap, budgetVars, logVars>>

\* the thread start() spawns: the first one not yet used
NewThread == CHOOSE t \in Threads : tpc[t] = "none" /\ \A u \in Threads : tpc[u] = "none" => t <= u

\* log "started"; self.monitor_thread = Thread(target=_monitor_loop); start it; return True
StartSpawn(c) ==
  /\ cpc[c] = "start_spawn"
  /\ monitor_thread' = NewThread
  /\ tpc' = [tpc EXCEPT ![NewThread] = "top"]
  /\ cpc' = [cpc EXCEPT ![c] = "return"]
  /\ cret' = [cret EXCEPT ![c] = "start:started"]
  /\ LogLockFree
  /\ memory_logs' = Log(<<"started", "-">>, "INFO")
  /\ UNCHANGED <<configVars, running, stop_event, lock, status,
                 website_status, apppool_status, tloc, cloc, snap, budgetVars, recent>>

\* if not self.running: return False, "not running"
StopCheck(c) ==
  /\ cpc[c] = "idle"
  /\ IF running
       THEN /\ cpc' = [cpc EXCEPT ![c] = "stop_flag"]
            /\ cret' = cret
       ELSE /\ cret' = [cret EXCEPT ![c] = "stop:not_running"]
            /\ cpc' = [cpc EXCEPT ![c] = "return"]
  /\ UNCHANGED <<configVars, running, stop_event, monitor_thread, lock, status,
                 website_status, apppool_status, threadVars, cloc, snap, budgetVars, logVars>>

\* log "stopping"; self.running = False
StopFlag(c) ==
  /\ cpc[c] = "stop_flag"
  /\ LogLockFree
  /\ memory_logs' = Log(<<"stopping", "-">>, "INFO")
  /\ running' = FALSE
  /\ cpc' = [cpc EXCEPT ![c] = "stop_event"]
  /\ UNCHANGED <<configVars, stop_event, monitor_thread, lock, status,
                 website_status, apppool_status, threadVars, cloc, cret, snap, budgetVars, recent>>

\* self.stop_event.set()
StopEvent(c) ==
  /\ cpc[c] = "stop_event"
  /\ stop_event' = TRUE
  /\ cpc' = [cpc EXCEPT ![c] = "stop_join"]
  /\ UNCHANGED <<configVars, running, monitor_thread, lock, status,
                 website_status, apppool_status, threadVars, cloc, cret, snap, budgetVars, logVars>>

\* the thread is alive: not yet returned from _monitor_loop
Alive(t) == t # 0 /\ tpc[t] \notin {"none", "done"}

\* where a thread can spend the five seconds of a join: in a probe (a request
\* or an appcmd call), in a restart, in the time.sleep(5) of the loop's except
\* branch, or waiting for the lock while another thread restarts
Slow(t) ==
  \/ tpc[t] \in {"site_probe", "pool_probe", "site_restart", "pool_restart", "backoff"}
  \/ tpc[t] \in {"site_acct", "site_exc", "pool_acct"} /\ lock # 0

\* if self.monitor_thread and self.monitor_thread.is_alive(): join(timeout=5)
\* returns: the thread has ended, or the five seconds have
StopJoin(c) ==
  /\ cpc[c] = "stop_join"
  /\ Alive(monitor_thread) => Slow(monitor_thread)
  /\ cpc' = [cpc EXCEPT ![c] = "stop_reset"]
  /\ UNCHANGED <<configVars, running, stop_event, monitor_thread, lock, status,
                 website_status, apppool_status, threadVars, cloc, cret, snap, budgetVars, logVars>>

\* with self.lock: status = "stopped", uptime_seconds = 0, start_time = None
StopReset(c) ==
  /\ cpc[c] = "stop_reset"
  /\ lock = 0
  /\ status' = [status EXCEPT !.status = "stopped", !.uptime_seconds = 0, !.start_time = NoTime]
  /\ cpc' = [cpc EXCEPT ![c] = "stop_return"]
  /\ UNCHANGED <<configVars, running, stop_event, monitor_thread, lock,
                 website_status, apppool_status, threadVars, cloc, cret, snap, budgetVars, logVars>>

\* log "stopped"; return True, "stopped"
StopReturn(c) ==
  /\ cpc[c] = "stop_return"
  /\ cpc' = [cpc EXCEPT ![c] = "return"]
  /\ cret' = [cret EXCEPT ![c] = "stop:stopped"]
  /\ LogLockFree
  /\ memory_logs' = Log(<<"stopped", "-">>, "INFO")
  /\ UNCHANGED <<configVars, running, stop_event, monitor_thread, lock, status,
                 website_status, apppool_status, threadVars, cloc, snap, budgetVars, recent>>

\* ------------------------------------------------------------------ configuration handlers
\* The JSON documents submitted to save_web_config_json and save_pool_config_json,
\* as json.loads returns them: name -> entry, in document order. The kind of an
\* entry says what its value is: "object" (an object whose fields convert and
\* are in range), "not_object" (a string, a number, a list, null),
\* "non_numeric" (an object whose check_timeout / restart_delay int() rejects),
\* "negative" (an object whose check_timeout / restart_delay is below zero)
EntryKinds == {"object", "not_object", "non_numeric", "negative"}

WebDocs ==
  { <<[name |-> "s2", kind |-> "object", enabled |-> TRUE]>>,
    <<[name |-> "s1", kind |-> "object", enabled |-> FALSE]>> }

PoolDocs ==
  { <<[name |-> "p1", kind |-> "object", enabled |-> TRUE, auto_restart |-> FALSE]>> }

\* the values save_global is called with (the sliders and the checkbox)
GlobalInputs == {[fail |-> 1, restart |-> TRUE], [fail |-> 3, restart |-> FALSE]}

\* "if not isinstance(site_data, dict): site_data = {}", then the defaults of
\* site_data.get: what WebsiteConfig(**config_data) holds for an entry
WebsiteConfig(e) ==
  [name |-> e.name, enabled |-> IF e.kind = "not_object" THEN TRUE ELSE e.enabled]

AppPoolConfig(e) ==
  [name |-> e.name,
   enabled |-> IF e.kind = "not_object" THEN TRUE ELSE e.enabled,
   auto_restart |-> IF e.kind = "not_object" THEN TRUE ELSE e.auto_restart]

\* int(site_data.get("check_timeout", 10)) etc. raise ValueError / TypeError
Raises(e) == e.kind = "non_numeric"

\* data = json.loads(json_str); monitor.config_manager.websites.clear();
\* success_count = 0; error_count = 0
WebSaveBeginFrom(c, docs) ==
  /\ cpc[c] = "idle"
  /\ ncalls < limit.calls
  /\ ncalls' = ncalls + 1
  /\ \E doc \in docs : cloc' = [cloc EXCEPT ![c] = [NoCall EXCEPT !.doc = doc, !.next = 1]]
  /\ websites' = <<>>
  /\ cpc' = [cpc EXCEPT ![c] = "web_add"]
  /\ cret' = cret
  /\ UNCHANGED <<app_pools, max_failures, global_auto_restart, config_file,
                 running, stop_event, monitor_thread, lock, status,
                 website_status, apppool_status, threadVars, snap,
                 nstarts, nprobes, limit, logVars>>

WebSaveBegin(c) == WebSaveBeginFrom(c, WebDocs)

\* one round of "for site_name, site_data in data.items()": the entry is
\* converted and websites[site_name] = WebsiteConfig(...), success_count += 1;
\* or the conversion raises and error_count += 1. After the last one
\* monitor.config_manager.save() is called
WebSaveAdd(c) ==
  /\ cpc[c] = "web_add"
  /\ LET loc == cloc[c] IN
     IF loc.next <= Len(loc.doc)
       THEN LET e == loc.doc[loc.next] IN
            IF Raises(e)
              THEN /\ websites' = websites
                   /\ cloc' = [cloc EXCEPT ![c].next = @ + 1, ![c].err = @ + 1]
                   /\ cpc' = cpc
              ELSE /\ websites' = DictSet(websites, WebsiteConfig(e))
                   /\ cloc' = [cloc EXCEPT ![c].next = @ + 1, ![c].ok = @ + 1]
                   /\ cpc' = cpc
       ELSE /\ cpc' = [cpc EXCEPT ![c] = "save_build"]
            /\ cloc' = [cloc EXCEPT ![c].after = "web_init"]
            /\ websites' = websites
  /\ UNCHANGED <<app_pools, max_failures, global_auto_restart, config_file,
                 running, stop_event, monitor_thread, lock, status,
                 website_status, apppool_status, threadVars, cret, snap, budgetVars, logVars>>

\* ConfigManager.save(), first half: data = {"websites": ..., "app_pools": ...,
\* "max_failures": ..., "global_auto_restart": ...} is built from the
\* configuration as it is now
SaveBuild(c) ==
  /\ cpc[c] = "save_build"
  /\ cloc' = [cloc EXCEPT ![c].data =
                ConfigData(websites, app_pools, max_failures, global_auto_restart)]
  /\ cpc' = [cpc EXCEPT ![c] = "save_write"]
  /\ UNCHANGED <<configVars, running, stop_event, monitor_thread, lock, status,
                 website_status, apppool_status, threadVars, cret, snap, budgetVars, logVars>>

\* ConfigManager.save(), second half: open(config_file, "w"); json.dump(data, f);
\* the handler goes on after the call
SaveWrite(c) ==
  /\ cpc[c] = "save_write"
  /\ config_file' = cloc[c].data
  /\ cpc' = [cpc EXCEPT ![c] = cloc[c].after]
  /\ UNCHANGED <<websites, app_pools, max_failures, global_auto_restart,
                 running, stop_event, monitor_thread, lock, status,
                 website_status, apppool_status, threadVars, cloc, cret, snap, budgetVars, logVars>>

\* monitor._init_status(); return the result message (it reports success_count
\* and error_count)
WebSaveInit(c) ==
  /\ cpc[c] = "web_init"
  /\ InitStatus
  /\ cpc' = [cpc EXCEPT ![c] = "return"]
  /\ cret' = [cret EXCEPT ![c] = "web:saved"]
  /\ UNCHANGED <<configVars, running, stop_event, monitor_thread, lock, status,
                 threadVars, cloc, snap, budgetVars, logVars>>

\* data = json.loads(json_str); monitor.config_manager.app_pools.clear()
PoolSaveBeginFrom(c, docs) ==
  /\ cpc[c] = "idle"
  /\ ncalls < limit.calls
  /\ ncalls' = ncalls + 1
  /\ \E doc \in docs : cloc' = [cloc EXCEPT ![c] = [NoCall EXCEPT !.doc = doc, !.next = 1]]
  /\ app_pools' = <<>>
  /\ cpc' = [cpc EXCEPT ![c] = "pool_add"]
  /\ cret' = cret
  /\ UNCHANGED <<websites, max_failures, global_auto_restart, config_file,
                 running, stop_event, monitor_thread, lock, status,
                 website_status, apppool_status, threadVars, snap,
                 nstarts, nprobes, limit, logVars>>

PoolSaveBegin(c) == PoolSaveBeginFrom(c, PoolDocs)

\* app_pools[pool_name] = AppPoolConfig(...), or the conversion raises
PoolSaveAdd(c) ==
  /\ cpc[c] = "pool_add"
  /\ LET loc == cloc[c] IN
     IF loc.next <= Len(loc.doc)
       THEN LET e == loc.doc[loc.next] IN
            IF Raises(e)
              THEN /\ app_pools' = app_pools
                   /\ cloc' = [cloc EXCEPT ![c].next = @ + 1, ![c].err = @ + 1]
                   /\ cpc' = cpc
              ELSE /\ app_pools' = DictSet(app_pools, AppPoolConfig(e))
                   /\ cloc' = [cloc EXCEPT ![c].next = @ + 1, ![c].ok = @ + 1]
                   /\ cpc' = cpc
       ELSE /\ cpc' = [cpc EXCEPT ![c] = "save_build"]
            /\ cloc' = [cloc EXCEPT ![c].after = "pool_init"]
            /\ app_pools' = app_pools
  /\ UNCHANGED <<websites, max_failures, global_auto_restart, config_file,
                 running, stop_event, monitor_thread, lock, status,
                 website_status, apppool_status, threadVars, cret, snap, budgetVars, logVars>>

PoolSaveInit(c) ==
  /\ cpc[c] = "pool_init"
  /\ InitStatus
  /\ cpc' = [cpc EXCEPT ![c] = "return"]
  /\ cret' = [cret EXCEPT ![c] = "pool:saved"]
  /\ UNCHANGED <<configVars, running, stop_event, monitor_thread, lock, status,
                 threadVars, cloc, snap, budgetVars, logVars>>

\* save_global(interval, fail, restart): the three settings are assigned, then
\* monitor.config_manager.save() is called (check_interval only sets the
\* length of the interval wait and is left out)
SaveGlobalFrom(c, inputs) ==
  /\ cpc[c] = "idle"
  /\ ncalls < limit.calls
  /\ ncalls' = ncalls + 1
  /\ \E in \in inputs :
       /\ max_failures' = in.fail
       /\ global_auto_restart' = in.restart
  /\ cloc' = [cloc EXCEPT ![c] = [NoCall EXCEPT !.after = "global_ret"]]
  /\ cpc' = [cpc EXCEPT ![c] = "save_build"]
  /\ UNCHANGED <<websites, app_pools, config_file, running, stop_event, monitor_thread,
                 lock, status, website_status, apppool_status, threadVars, cret, snap,
                 nstarts, nprobes, limit, logVars>>

SaveGlobal(c) == SaveGlobalFrom(c, GlobalInputs)

\* return "saved"
SaveGlobalReturn(c) ==
  /\ cpc[c] = "global_ret"
  /\ cret' = [cret EXCEPT ![c] = "global:saved"]
  /\ cpc' = [cpc EXCEPT ![c] = "return"]
  /\ UNCHANGED <<configVars, running, stop_event, monitor_thread, lock, status,
                 website_status, apppool_status, threadVars, cloc, snap, budgetVars, logVars>>

\* The texts a bulk update rejects as a whole: one that json.loads cannot parse
\* (JSONDecodeError) and one that is valid JSON but no object, such as a list
\* (data.items() raises AttributeError)
BadTexts == {"unparseable", "not_an_object"}

\* save_web_config_json(json_str) with such a text: json.loads raises before
\* anything is touched; or json.loads returns, websites.clear() runs and
\* data.items() raises. Either way the except branch returns the error message
WebSaveFails(c) ==
  /\ cpc[c] = "idle"
  /\ ncalls < limit.calls
  /\ ncalls' = ncalls + 1
  /\ \E text \in BadTexts :
       IF text = "unparseable"
         THEN /\ websites' = websites
              /\ cret' = [cret EXCEPT ![c] = "web:json_error"]
         ELSE /\ websites' = <<>>
              /\ cret' = [cret EXCEPT ![c] = "web:save_failed"]
  /\ cpc' = [cpc EXCEPT ![c] = "return"]
  /\ UNCHANGED <<app_pools, max_failures, global_auto_restart, config_file,
                 running, stop_event, monitor_thread, lock, status,
                 website_status, apppool_status, threadVars, cloc, snap,
                 nstarts, nprobes, limit, logVars>>

\* save_pool_config_json(json_str) with such a text
PoolSaveFails(c) ==
  /\ cpc[c] = "idle"
  /\ ncalls < limit.calls
  /\ ncalls' = ncalls + 1
  /\ \E text \in BadTexts :
       IF text = "unparseable"
         THEN /\ app_pools' = app_pools
              /\ cret' = [cret EXCEPT ![c] = "pool:json_error"]
         ELSE /\ app_pools' = <<>>
              /\ cret' = [cret EXCEPT ![c] = "pool:save_failed"]
  /\ cpc' = [cpc EXCEPT ![c] = "return"]
  /\ UNCHANGED <<websites, max_failures, global_auto_restart, config_file,
                 running, stop_event, monitor_thread, lock, status,
                 website_status, apppool_status, threadVars, cloc, snap,
                 nstarts, nprobes, limit, logVars>>

\* ------------------------------------------------------------------ get_status_snapshot()
\* asdict(self.status) is a copy; dict(self.website_status) copies the table
\* only: its values are the engine's own state dictionaries, so the snapshot
\* holds the names and reads each entry through the table
Snapshot ==
  [taken |-> TRUE, monitor |-> status, websites |-> DOMAIN website_status,
   pools |-> DOMAIN apppool_status, max_fail |-> max_failures]

\* a variant of get_status_snapshot whose lock.acquire() has no timeout
GetStatusSnapshotWaits(c) ==
  /\ cpc[c] = "idle"
  /\ ncalls < limit.calls
  /\ ncalls' = ncalls + 1
  /\ lock = 0
  /\ snap' = Snapshot
  /\ cret' = [cret EXCEPT ![c] = "snapshot:dict"]
  /\ cpc' = [cpc EXCEPT ![c] = "return"]
  /\ UNCHANGED <<configVars, running, stop_event, monitor_thread, lock, status,
                 website_status, apppool_status, threadVars, cloc,
                 nstarts, nprobes, limit, logVars>>

\* lock.acquire(timeout=0.1): a snapshot when the lock is free, None when a
\* loop thread keeps it (a restart lasts seconds)
GetStatusSnapshot(c) ==
  /\ cpc[c] = "idle"
  /\ ncalls < limit.calls
  /\ ncalls' = ncalls + 1
  /\ IF lock = 0
       THEN /\ snap' = Snapshot
            /\ cret' = [cret EXCEPT ![c] = "snapshot:dict"]
       ELSE /\ snap' = snap
            /\ cret' = [cret EXCEPT ![c] = "snapshot:None"]
  /\ cpc' = [cpc EXCEPT ![c] = "return"]
  /\ UNCHANGED <<configVars, running, stop_event, monitor_thread, lock, status,
                 website_status, apppool_status, threadVars, cloc,
                 nstarts, nprobes, limit, logVars>>

\* the handler has returned: the caller has its result (update_ui reads the
\* snapshot it got, outside the lock) and is done with it
Return(c) ==
  /\ cpc[c] = "return"
  /\ cpc' = [cpc EXCEPT ![c] = "idle"]
  /\ cret' = [cret EXCEPT ![c] = "none"]
  /\ cloc' = [cloc EXCEPT ![c] = NoCall]
  /\ snap' = NoSnapshot
  /\ UNCHANGED <<configVars, running, stop_event, monitor_thread, lock, status,
                 website_status, apppool_status, threadVars, budgetVars, logVars>>

\* ------------------------------------------------------------------ the system
LoopStep(t) ==
  \/ LoopTop(t)
  \/ SiteNext(t) \/ SiteProbeRaises(t) \/ SiteProbeReturns(t) \/ SiteAccount(t)
  \/ SiteExcept(t) \/ SiteRestartDone(t) \/ SiteRestartLogged(t)
  \/ PoolNext(t) \/ PoolProbeReturns(t) \/ PoolAccount(t) \/ PoolRestartDone(t)
  \/ PoolRestartLogged(t)
  \/ UptimeCheck(t) \/ UptimeParse(t) \/ UptimeSet(t)

CallerStep(c) ==
  \/ StartCheck(c) \/ StartFlag(c) \/ StartStatus(c) \/ StartInit(c) \/ StartSpawn(c)
  \/ StopCheck(c) \/ StopFlag(c) \/ StopEvent(c) \/ StopJoin(c) \/ StopReset(c)
  \/ StopReturn(c)
  \/ WebSaveBegin(c) \/ WebSaveAdd(c) \/ WebSaveInit(c)
  \/ PoolSaveBegin(c) \/ PoolSaveAdd(c) \/ PoolSaveInit(c)
  \/ SaveGlobal(c) \/ SaveGlobalReturn(c) \/ SaveBuild(c) \/ SaveWrite(c)
  \/ GetStatusSnapshot(c) \/ Return(c)

Next ==
  \/ \E t \in Threads : LoopStep(t)
  \/ \E c \in Foreground : CallerStep(c)

Spec == Init /\ [][Next]_vars

\* ------------------------------------------------------------------ the example run
\* The run of the examples: the default threshold of ConfigManager.__init__
\* (max_failures = 3), automatic restarts allowed, one site, one session, no
\* configuration change; the site answers healthy twice and fails from then
\* on, and every restart fails.
ExampleInit ==
  /\ websites = <<[name |-> "s1", enabled |-> TRUE]>>
  /\ app_pools = <<>>
  /\ max_failures = 3
  /\ global_auto_restart = TRUE
  /\ config_file = ConfigData(websites, app_pools, max_failures, global_auto_restart)
  /\ running = FALSE
  /\ stop_event = FALSE
  /\ monitor_thread = 0
  /\ lock = 0
  /\ status = StoppedStatus
  /\ website_status = SeedTable(EmptyTable, websites)
  /\ apppool_status = SeedTable(EmptyTable, app_pools)
  /\ tpc = [t \in Threads |-> "none"]
  /\ tloc = [t \in Threads |-> NoLocals]
  /\ cpc = [c \in Callers |-> "idle"]
  /\ cloc = [c \in Callers |-> NoCall]
  /\ cret = [c \in Callers |-> "none"]
  /\ snap = NoSnapshot
  /\ nstarts = 0 /\ nprobes = 0 /\ ncalls = 0
  /\ limit = [probes |-> ExampleProbes, calls |-> MaxCalls, lines |-> 0]
  /\ memory_logs = <<>>
  /\ recent = NoLines

\* the probe of the example: healthy the first two times, failing afterwards
\* (an unexpected status code, or an error raised)
ExampleHealthyProbe(t) ==
  /\ nprobes <= 2
  /\ SiteProbeReturns(t)
  /\ tloc'[t].res = "ok"

ExampleUnhealthyProbe(t) ==
  /\ nprobes > 2
  /\ SiteProbeReturns(t)
  /\ tloc'[t].res = "bad"

ExampleProbeError(t) ==
  /\ nprobes > 2
  /\ SiteProbeRaises(t)

\* restart_website returns False
ExampleFailedRestart(t) ==
  /\ SiteRestartDone(t)
  /\ status'.total_restarts = status.total_restarts

ExampleNext ==
  \/ \E t \in Threads :
        \/ LoopTop(t) \/ SiteNext(t)
        \/ ExampleHealthyProbe(t) \/ ExampleUnhealthyProbe(t) \/ ExampleProbeError(t)
        \/ SiteAccount(t) \/ SiteExcept(t) \/ ExampleFailedRestart(t)
        \/ SiteRestartLogged(t)
        \/ PoolNext(t) \/ UptimeCheck(t) \/ UptimeParse(t) \/ UptimeSet(t)
  \/ \E c \in Foreground :
        \/ StartCheck(c) \/ StartFlag(c) \/ StartStatus(c) \/ StartInit(c)
        \/ StartSpawn(c) \/ Return(c)

ExampleSpec == ExampleInit /\ [][ExampleNext]_vars

\* ------------------------------------------------------------------ the configuration store
\* The handlers that write the configuration, called by two foreground callers
\* on a stopped engine, with batches that hold entries of every kind and with
\* texts that are rejected as a whole.
BatchWebDocs ==
  { <<[name |-> "s1", kind |-> "object", enabled |-> TRUE],
      [name |-> "s2", kind |-> "non_numeric", enabled |-> TRUE]>>,
    <<[name |-> "s2", kind |-> "not_object", enabled |-> FALSE],
      [name |-> "s1", kind |-> "negative", enabled |-> FALSE]>> }

BatchPoolDocs ==
  { <<[name |-> "p1", kind |-> "not_object", enabled |-> FALSE, auto_restart |-> FALSE]>> }

StoreInit ==
  /\ websites = <<[name |-> "s1", enabled |-> TRUE]>>
  /\ app_pools = <<>>
  /\ max_failures = 2
  /\ global_auto_restart = TRUE
  /\ config_file = ConfigData(websites, app_pools, max_failures, global_auto_restart)
  /\ running = FALSE
  /\ stop_event = FALSE
  /\ monitor_thread = 0
  /\ lock = 0
  /\ status = StoppedStatus
  /\ website_status = SeedTable(EmptyTable, websites)
  /\ apppool_status = SeedTable(EmptyTable, app_pools)
  /\ tpc = [t \in Threads |-> "none"]
  /\ tloc = [t \in Threads |-> NoLocals]
  /\ cpc = [c \in Callers |-> "idle"]
  /\ cloc = [c \in Callers |-> NoCall]
  /\ cret = [c \in Callers |-> "none"]
  /\ snap = NoSnapshot
  /\ nstarts = 0 /\ nprobes = 0 /\ ncalls = 0
  /\ limit = [probes |-> 0, calls |-> StoreCalls, lines |-> 0]
  /\ memory_logs = <<>>
  /\ recent = NoLines

BatchWebSave(c) == WebSaveBeginFrom(c, BatchWebDocs)

BatchPoolSave(c) == PoolSaveBeginFrom(c, BatchPoolDocs)

StoreNext ==
  \E c \in Callers :
    \/ BatchWebSave(c) \/ WebSaveAdd(c) \/ WebSaveInit(c)
    \/ BatchPoolSave(c) \/ PoolSaveAdd(c) \/ PoolSaveInit(c)
    \/ WebSaveFails(c) \/ PoolSaveFails(c)
    \/ SaveGlobal(c) \/ SaveGlobalReturn(c) \/ SaveBuild(c) \/ SaveWrite(c)
    \/ Return(c)

StoreSpec == StoreInit /\ [][StoreNext]_vars

\* ------------------------------------------------------------------ properties
\* the step in which thread t ends the accounting of its current probe: it
\* leaves the block(s) under the lock for the next entry, or with a restart begun
SiteDone(t) ==
  /\ tpc[t] \in {"site_acct", "site_exc"}
  /\ tpc'[t] \in {"sites", "site_restart"}

PoolDone(t) ==
  /\ tpc[t] = "pool_acct"
  /\ tpc'[t] \in {"pools", "pool_restart"}

\* the step in which a restart returns
RestartDone(t) ==
  /\ tpc[t] \in {"site_restart", "pool_restart"}
  /\ tpc'[t] # tpc[t]

\* the probe of thread t failed: an unhealthy verdict or an error raised
Failed(t) == tloc[t].res \in {"bad", "err"}

\* the fail_count a name has (0 when it has no entry yet)
CountOf(table, n) == IF n \in DOMAIN table THEN table[n].fail_count ELSE 0

\* C1: after the accounting of a healthy probe the target's fail_count is 0, and
\* the accounting of a failed probe (unhealthy or error) leaves it one higher
\* than before, for sites and pools; so it is k after k failed probes in a row.
C1_FailCountFollowsProbes ==
  [][\A t \in Threads :
       /\ SiteDone(t) =>
            website_status'[tloc[t].name].fail_count =
              IF Failed(t) THEN CountOf(website_status, tloc[t].name) + 1 ELSE 0
       /\ PoolDone(t) =>
            apppool_status'[tloc[t].name].fail_count =
              IF Failed(t) THEN CountOf(apppool_status, tloc[t].name) + 1 ELSE 0]_vars

\* C2: the accounting of a probe begins a restart only if the probe failed, the
\* incremented fail_count has reached max_failures and global_auto_restart is
\* true; and it does begin one whenever these hold for a configured target.
C2_RestartIffThreshold ==
  [][\A t \in Threads :
       /\ SiteDone(t) =>
            LET due == /\ Failed(t)
                       /\ website_status'[tloc[t].name].fail_count >= max_failures
                       /\ global_auto_restart
            IN /\ tpc'[t] = "site_restart" => due
               /\ due /\ tloc[t].name \in Names(websites) => tpc'[t] = "site_restart"
       /\ PoolDone(t) =>
            LET due == /\ Failed(t)
                       /\ apppool_status'[tloc[t].name].fail_count >= max_failures
                       /\ global_auto_restart
            IN /\ tpc'[t] = "pool_restart" => due
               /\ due /\ tloc[t].name \in Names(app_pools) => tpc'[t] = "pool_restart"]_vars

\* C3: within a session (start() resets the counters) total_failures grows by
\* one with the accounting of each failed probe and changes in no other step;
\* total_restarts grows by one when a restart returns success, by nothing when
\* it returns failure,
\* and changes in no other step.
C3_SessionCounters ==
  [][/\ \A t \in Threads :
          SiteDone(t) \/ PoolDone(t) =>
            status'.total_failures = status.total_failures + (IF Failed(t) THEN 1 ELSE 0)
     /\ status'.total_failures # status.total_failures =>
          \/ \E t \in Threads : SiteDone(t) \/ PoolDone(t)
          \/ \E c \in Callers : StartStatus(c)
     /\ \A t \in Threads :
          RestartDone(t) =>
            status'.total_restarts =
              status.total_restarts + (IF tpc'[t] \in {"site_log_ok", "pool_log_ok"} THEN 1 ELSE 0)
     /\ status'.total_restarts # status.total_restarts =>
          \/ \E t \in Threads : RestartDone(t)
          \/ \E c \in Callers : StartStatus(c)]_vars

\* the fail_count of the example's site after k probes: healthy, healthy, then
\* failing, with every restart failing
ExampleTrace(k) == IF k <= 2 THEN 0 ELSE k - 2

\* the trace as the example states it: it stays at the threshold
ExampleTraceAtThreshold(k) == IF ExampleTrace(k) <= max_failures THEN ExampleTrace(k) ELSE max_failures

\* no thread is in the middle of a probe or of its accounting
Settled == \A t \in Threads : tpc[t] \notin {"site_probe", "site_acct", "site_exc"}

C5_StartWhileRunningIsNoOp ==
  [][\A c \in Callers :
       StartCheck(c) /\ running =>
         /\ cret'[c] = "start:already_running"
         /\ running'
         /\ UNCHANGED <<stop_event, monitor_thread, tpc, status, website_status, apppool_status>>]_vars

\* start() has returned "already running" in a session that has counted a failure
C5_Witness ==
  /\ \E c \in Callers : cret[c] = "start:already_running"
  /\ running
  /\ status.status = "running"
  /\ status.total_failures > 0
  /\ \E t \in Threads : Alive(t)

\* C6: when stop() returns, MonitorStatus has status stopped, uptime_seconds 0
\* and start_time cleared.
C6_StopEndsStopped ==
  [][\A c \in Callers :
       StopReturn(c) =>
         /\ status'.status = "stopped"
         /\ status'.uptime_seconds = 0
         /\ status'.start_time = NoTime]_vars

\* last_check and total_checks of an entry agree: never checked, or checked and counted
Consistent(stat) ==
  \/ stat.last_check = Never /\ stat.total_checks = 0
  \/ stat.last_check = Stamp /\ stat.total_checks > 0

\* C7: every entry a snapshot shows has last_check and total_checks in agreement.
C7_SnapshotConsistent ==
  snap.taken =>
    /\ \A n \in snap.websites : Consistent(website_status[n])
    /\ \A n \in snap.pools : Consistent(apppool_status[n])

\* C8: after the reseed that ends a replacement of the site map (pool map) the
\* state table holds exactly the names of the map, the names that had no entry
\* with a fresh one.
C8_ReseedMatchesConfig ==
  [][\A c \in Callers :
       /\ WebSaveInit(c) =>
            /\ DOMAIN website_status' = Names(websites)
            /\ \A n \in Names(websites) \ DOMAIN website_status : website_status'[n] = FreshState
       /\ PoolSaveInit(c) =>
            /\ DOMAIN apppool_status' = Names(app_pools)
            /\ \A n \in Names(app_pools) \ DOMAIN apppool_status : apppool_status'[n] = FreshState]_vars

\* an entry of a state table is as a (re)start leaves it
Reset(table, n) ==
  /\ n \in DOMAIN table
  /\ table[n].status = "unknown"
  /\ table[n].fail_count = 0

\* C9: when a successful start() returns, MonitorStatus is running with
\* start_time set and the three counters 0, and every configured target is
\* unknown with fail_count 0.
C9_StartResetsSession ==
  [][\A c \in Callers :
       StartSpawn(c) =>
         /\ status' = RunningStatus
         /\ \A n \in Names(websites) : Reset(website_status', n)
         /\ \A n \in Names(app_pools) : Reset(apppool_status', n)]_vars

InCycle(t) ==
  tpc[t] \in {"sites", "site_probe", "site_acct", "site_exc", "site_restart",
              "site_log_ok", "site_log_fail",
              "pools", "pool_probe", "pool_acct", "pool_restart",
              "pool_log_ok", "pool_log_fail"}

\* C11: at every moment at most one monitor-loop thread is inside a check cycle.
C11_OneLoopThread == Cardinality({t \in Threads : InCycle(t)}) <= 1

\* C12: get_status_snapshot() never waits for the loop thread (it can always
\* take its step); called while a loop thread keeps the lock it returns None
\* and no snapshot, called while the lock is free it returns a snapshot; in
\* both cases the lock is afterwards as it was and no engine state has changed.
C12_SnapshotNeverBlocks ==
  /\ [](\A c \in Callers :
          cpc[c] = "idle" /\ ncalls < limit.calls => ENABLED GetStatusSnapshot(c))
  /\ [][\A c \in Callers :
          GetStatusSnapshot(c) =>
            /\ lock # 0 => cret'[c] = "snapshot:None" /\ snap' = NoSnapshot
            /\ lock = 0 => cret'[c] = "snapshot:dict" /\ snap' = Snapshot
            /\ cpc'[c] = "return"
            /\ UNCHANGED <<lock, configVars, running, stop_event, monitor_thread, status,
                           website_status, apppool_status, threadVars>>]_vars

\* get_status_snapshot() has returned None while a restart keeps the lock
C12_Witness ==
  /\ \E c \in Callers : cret[c] = "snapshot:None" /\ cpc[c] = "return"
  /\ \E t \in Threads : lock = t /\ tpc[t] \in {"site_restart", "pool_restart"}
  /\ ~snap.taken

\* what a caller reads in the snapshot it was given: the copy of MonitorStatus,
\* the names of each table, and for each name the entry behind it
SnapshotContents ==
  [monitor  |-> snap.monitor,
   websites |-> [n \in snap.websites |-> website_status[n]],
   pools    |-> [n \in snap.pools |-> apppool_status[n]],
   max_fail |-> snap.max_fail]

\* C13: as long as a caller holds a snapshot, no step of the engine changes
\* what the snapshot contains.
C13_SnapshotIndependent ==
  [][snap.taken /\ snap'.taken => SnapshotContents' = SnapshotContents]_vars

\* the total_checks a name has (0 when it has no entry yet)
ChecksOf(table, n) == IF n \in DOMAIN table THEN table[n].total_checks ELSE 0

\* C14: the accounting of every probe (healthy, unhealthy, error), site or
\* pool, adds one to the target's total_checks and one to
\* MonitorStatus.total_checks and sets the target's last_check.
C14_EveryProbeCounted ==
  [][\A t \in Threads :
       /\ SiteDone(t) =>
            /\ website_status'[tloc[t].name].total_checks = ChecksOf(website_status, tloc[t].name) + 1
            /\ website_status'[tloc[t].name].last_check = Stamp
            /\ status'.total_checks = status.total_checks + 1
       /\ PoolDone(t) =>
            /\ apppool_status'[tloc[t].name].total_checks = ChecksOf(apppool_status, tloc[t].name) + 1
            /\ apppool_status'[tloc[t].name].last_check = Stamp
            /\ status'.total_checks = status.total_checks + 1]_vars

\* C16: only stop() ends the loop. The run flag is cleared and the stop event
\* set by stop() alone; a loop thread exits only at its loop test and only
\* when the flag is cleared or the event set; whenever it leaves the start, the
\* interval wait or the pause after an exception with the flag set and the
\* event clear, it begins another cycle; and a cycle is left only for the
\* uptime update, the wait or that pause.
C16_OnlyStopEndsLoop ==
  /\ [][running /\ ~running' => \E c \in Callers : StopFlag(c)]_vars
  /\ [][~stop_event /\ stop_event' => \E c \in Callers : StopEvent(c)]_vars
  /\ [][\A t \in Threads :
          /\ tpc[t] # "done" /\ tpc'[t] = "done" =>
               /\ tpc[t] \in {"top", "wait", "backoff"}
               /\ ~running \/ stop_event
          /\ tpc[t] \in {"top", "wait", "backoff"} /\ tpc'[t] # tpc[t] /\ running /\ ~stop_event =>
               tpc'[t] = "sites"
          /\ InCycle(t) /\ ~InCycle(t)' =>
               tpc'[t] \in {"uptime_chk", "backoff"}]_vars

\* an exception has escaped a check cycle (the site map changed size under the
\* iterator) in a session that stop() has not touched: the loop thread pauses
C16_Witness ==
  /\ running /\ ~stop_event
  /\ status.status = "running"
  /\ \E t \in Threads : tpc[t] = "backoff" /\ monitor_thread = t
  /\ \A c \in Callers : cpc[c] \notin {"stop_flag", "stop_event", "stop_join", "stop_reset", "stop_return"}

\* C17: no thread holds LogManager.lock and the engine's lock at the same time.
C17_LocksNeverNested == \A t \in Threads : InLog(t) => lock # t

\* a dict as Python compares dicts: the set of its items, whatever their order
Items(d) == {d[i] : i \in 1..Len(d)}

\* the map a replacement by document doc ends with when nothing runs beside
\* it: the entries that convert, in document order
RECURSIVE StoreSites(_, _)
StoreSites(doc, acc) ==
  IF doc = <<>> THEN acc
  ELSE StoreSites(Tail(doc),
                  IF Raises(Head(doc)) THEN acc ELSE DictSet(acc, WebsiteConfig(Head(doc))))

SitesOf(doc) == StoreSites(doc, <<>>)

RECURSIVE StorePools(_, _)
StorePools(doc, acc) ==
  IF doc = <<>> THEN acc
  ELSE StorePools(Tail(doc),
                  IF Raises(Head(doc)) THEN acc ELSE DictSet(acc, AppPoolConfig(Head(doc))))

PoolsOf(doc) == StorePools(doc, <<>>)

\* C18: the site map (pool map) changes only by a swap: every step that
\* changes it leaves it equal to the complete map of a document some caller
\* submitted, never empty or partly filled.
C18_AtomicSwap ==
  [][/\ websites' # websites =>
          \E c \in Callers : cpc'[c] = "web_add" /\ Items(websites') = Items(SitesOf(cloc'[c].doc))
     /\ app_pools' # app_pools =>
          \E c \in Callers : cpc'[c] = "pool_add" /\ Items(app_pools') = Items(PoolsOf(cloc'[c].doc))]_vars

\* the entry a handler converts in its next round, and whether there is one
HasEntry(c) == cloc[c].next >= 1 /\ cloc[c].next <= Len(cloc[c].doc)
Entry(c) == cloc[c].doc[cloc[c].next]

\* C19: each round of a bulk update handles its entry on its own: a valid
\* entry is stored and counted as a success; an invalid one (not an object, a
\* non-numeric or a negative number field) leaves the map as it is and is
\* counted as an error; the handler goes on with the next entry either way.
C19_EntriesValidated ==
  [][\A c \in Callers :
       /\ WebSaveAdd(c) /\ HasEntry(c) =>
            /\ cloc'[c].next = cloc[c].next + 1
            /\ IF Entry(c).kind = "object"
                 THEN /\ websites' = DictSet(websites, [name |-> Entry(c).name, enabled |-> Entry(c).enabled])
                      /\ cloc'[c].ok = cloc[c].ok + 1 /\ cloc'[c].err = cloc[c].err
                 ELSE /\ websites' = websites
                      /\ cloc'[c].err = cloc[c].err + 1 /\ cloc'[c].ok = cloc[c].ok
       /\ PoolSaveAdd(c) /\ HasEntry(c) =>
            /\ cloc'[c].next = cloc[c].next + 1
            /\ IF Entry(c).kind = "object"
                 THEN /\ Entry(c).name \in Names(app_pools')
                      /\ cloc'[c].ok = cloc[c].ok + 1 /\ cloc'[c].err = cloc[c].err
                 ELSE /\ app_pools' = app_pools
                      /\ cloc'[c].err = cloc[c].err + 1 /\ cloc'[c].ok = cloc[c].ok]_vars

\* both callers have returned from a handler that writes the configuration,
\* one of them at least from a replacement of a map
BothReturned ==
  /\ \A c \in Callers : cpc[c] = "return" /\ cret[c] \in {"web:saved", "pool:saved", "global:saved"}
  /\ \E c \in Callers : cret[c] \in {"web:saved", "pool:saved"}

\* C20: writes of the configuration are serialized: when a replacement of a
\* map and another replacement or a save of the global settings have both
\* returned, the file holds the configuration in memory, and after two
\* replacements of the site map (pool map) the map is the map of one of the
\* two documents.
C20_WritesSerialized ==
  /\ BothReturned =>
       /\ Items(config_file.websites) = Items(websites)
       /\ Items(config_file.app_pools) = Items(app_pools)
       /\ config_file.max_failures = max_failures
       /\ config_file.global_auto_restart = global_auto_restart
  /\ (\A c \in Callers : cpc[c] = "return" /\ cret[c] = "web:saved") =>
       \E c \in Callers : Items(websites) = Items(SitesOf(cloc[c].doc))
  /\ (\A c \in Callers : cpc[c] = "return" /\ cret[c] = "pool:saved") =>
       \E c \in Callers : Items(app_pools) = Items(PoolsOf(cloc[c].doc))

\* the enabled names of a map
Enabled(d) == {d[i].name : i \in {j \in 1..Len(d) : d[j].enabled}}

\* a sequence holds every name of set S exactly once and nothing else
ExactlyOnce(seq, S) ==
  /\ {seq[i] : i \in 1..Len(seq)} = S
  /\ Len(seq) = Cardinality(S)

\* C15: a check cycle is never cut short, and when its loop over the sites
\* (over the pools) ends it has probed every enabled site (pool) exactly once,
\* whatever the probes and the restarts returned.
C15_CycleProbesEveryTarget ==
  [][\A t \in Threads :
       /\ InCycle(t) => tpc'[t] # "backoff"
       /\ tpc[t] = "sites" /\ tpc'[t] = "pools" => ExactlyOnce(tloc[t].seen, Enabled(websites))
       /\ tpc[t] = "pools" /\ tpc'[t] = "uptime_chk" => ExactlyOnce(tloc[t].seen, Enabled(app_pools))]_vars

\* ------------------------------------------------------------------ the log buffer
\* seq[start:] of Python: a negative start counts from the end, and a start
\* outside the list is clamped to it
SliceFrom(seq, start) ==
  LET n == Len(seq)
      from == IF start < 0 THEN (IF start + n < 0 THEN 0 ELSE start + n)
              ELSE (IF start > n THEN n ELSE start)
  IN SubSeq(seq, from + 1, n)

\* return self.memory_logs[-count:] if len(self.memory_logs) > count
\*        else self.memory_logs.copy()
get_recent_logs(count) ==
  IF Len(memory_logs) > count THEN SliceFrom(memory_logs, -count) ELSE memory_logs

\* The LogManager alone: callers log lines (the k-th call logs line k) and
\* ask for the recent ones; the buffer keeps MaxLogLines lines.
LogInit ==
  /\ websites = <<>>
  /\ app_pools = <<>>
  /\ max_failures = 3
  /\ global_auto_restart = TRUE
  /\ config_file = ConfigData(websites, app_pools, max_failures, global_auto_restart)
  /\ running = FALSE
  /\ stop_event = FALSE
  /\ monitor_thread = 0
  /\ lock = 0
  /\ status = StoppedStatus
  /\ website_status = EmptyTable
  /\ apppool_status = EmptyTable
  /\ tpc = [t \in Threads |-> "none"]
  /\ tloc = [t \in Threads |-> NoLocals]
  /\ cpc = [c \in Callers |-> "idle"]
  /\ cloc = [c \in Callers |-> NoCall]
  /\ cret = [c \in Callers |-> "none"]
  /\ snap = NoSnapshot
  /\ nstarts = 0 /\ nprobes = 0 /\ ncalls = 0
  /\ limit = [probes |-> 0, calls |-> LogCalls, lines |-> MaxLogLines]
  /\ memory_logs = <<>>
  /\ recent = NoLines

\* logger.log(message, level) returns
LogLine ==
  /\ ncalls < limit.calls
  /\ ncalls' = ncalls + 1
  /\ \E level \in {"INFO", "ERROR"} : memory_logs' = Log(<<"line", ncalls + 1>>, level)
  /\ UNCHANGED <<configVars, running, stop_event, monitor_thread, lock, status,
                 website_status, apppool_status, threadVars, callerVars, snap,
                 nstarts, nprobes, limit, recent>>

\* logger.get_recent_logs(count) returns
GetRecentLogs ==
  /\ \E count \in 0..MaxCount : recent' = [count |-> count, lines |-> get_recent_logs(count)]
  /\ UNCHANGED <<configVars, running, stop_event, monitor_thread, lock, status,
                 website_status, apppool_status, threadVars, callerVars, snap,
                 budgetVars, memory_logs>>

LogNext == LogLine \/ GetRecentLogs

LogSpec == LogInit /\ [][LogNext]_vars

Min(a, b) == IF a < b THEN a ELSE b

\* the last k entries of a sequence, in its order
LastOf(seq, k) == SubSeq(seq, Len(seq) - k + 1, Len(seq))

\* C21: the buffer holds the most recent lines logged, at most its capacity, in
\* the order they were logged; and get_recent_logs(count) returns, for every
\* count >= 0, the last min(count, n) of the n buffered lines in that order.
C21_RecentReturnsLastCount ==
  /\ [](/\ Len(memory_logs) = Min(ncalls, limit.lines)
        /\ \A i \in 1..Len(memory_logs) :
             memory_logs[i].message = <<"line", ncalls - Len(memory_logs) + i>>)
  /\ [][GetRecentLogs =>
          recent'.lines = LastOf(memory_logs, Min(recent'.count, Len(memory_logs)))]_vars

\* ------------------------------------------------------------------ remediation
\* One session on one site and one pool with a threshold of one failure:
\* automatic restarts allowed or not, the pool's own auto_restart set or not,
\* the maps replaced while the loop runs, and a log buffer that keeps lines.
RemediationInit ==
  /\ websites = <<[name |-> "s1", enabled |-> TRUE]>>
  /\ \E ar \in BOOLEAN : app_pools = <<[name |-> "p1", enabled |-> TRUE, auto_restart |-> ar]>>
  /\ max_failures = 1
  /\ global_auto_restart \in BOOLEAN
  /\ config_file = ConfigData(websites, app_pools, max_failures, global_auto_restart)
  /\ running = FALSE
  /\ stop_event = FALSE
  /\ monitor_thread = 0
  /\ lock = 0
  /\ status = StoppedStatus
  /\ website_status = SeedTable(EmptyTable, websites)
  /\ apppool_status = SeedTable(EmptyTable, app_pools)
  /\ tpc = [t \in Threads |-> "none"]
  /\ tloc = [t \in Threads |-> NoLocals]
  /\ cpc = [c \in Callers |-> "idle"]
  /\ cloc = [c \in Callers |-> NoCall]
  /\ cret = [c \in Callers |-> "none"]
  /\ snap = NoSnapshot
  /\ nstarts = 0 /\ nprobes = 0 /\ ncalls = 0
  /\ limit = [probes |-> MaxProbes, calls |-> MaxCalls, lines |-> MaxLogLines]
  /\ memory_logs = <<>>
  /\ recent = NoLines

RemediationNext ==
  \/ \E t \in Threads : LoopStep(t)
  \/ \E c \in Foreground :
        \/ StartCheck(c) \/ StartFlag(c) \/ StartStatus(c) \/ StartInit(c) \/ StartSpawn(c)
        \/ WebSaveBegin(c) \/ WebSaveAdd(c) \/ WebSaveInit(c)
        \/ PoolSaveBegin(c) \/ PoolSaveAdd(c) \/ PoolSaveInit(c)
        \/ SaveBuild(c) \/ SaveWrite(c) \/ Return(c)

RemediationSpec == RemediationInit /\ [][RemediationNext]_vars

\* the failed probe of thread t is one whose target must not be restarted:
\* restarts are not allowed, or the name is no longer in the map of its kind
NotToRestart(t, cfg) == ~global_auto_restart \/ tloc[t].name \notin Names(cfg)

\* C22: when restarts are not allowed, or the failing target's name is not in
\* the map of its kind, the accounting of a failed probe still counts it
\* (fail_count and total_failures one higher, status error / stopped) and
\* writes a log entry, begins no restart and leaves total_restarts alone.
C22_FailureRecordedNotRemediated ==
  [][\A t \in Threads :
       /\ SiteDone(t) /\ Failed(t) /\ NotToRestart(t, websites) =>
            /\ website_status'[tloc[t].name].fail_count = CountOf(website_status, tloc[t].name) + 1
            /\ website_status'[tloc[t].name].status = "error"
            /\ status'.total_failures = status.total_failures + 1
            /\ memory_logs' # memory_logs
            /\ tpc'[t] # "site_restart"
            /\ status'.total_restarts = status.total_restarts
       /\ PoolDone(t) /\ Failed(t) /\ NotToRestart(t, app_pools) =>
            /\ apppool_status'[tloc[t].name].fail_count = CountOf(apppool_status, tloc[t].name) + 1
            /\ apppool_status'[tloc[t].name].status = "stopped"
            /\ status'.total_failures = status.total_failures + 1
            /\ memory_logs' # memory_logs
            /\ tpc'[t] # "pool_restart"
            /\ status'.total_restarts = status.total_restarts]_vars

\* the configuration entry of a pool
PoolConfig(name) == app_pools[CHOOSE i \in 1..Len(app_pools) : app_pools[i].name = name]

\* C24: a restart of a pool begins only when global_auto_restart is true and
\* the pool's own auto_restart is true.
C24_PoolRestartNeedsBothFlags ==
  [][\A t \in Threads :
       PoolDone(t) /\ tpc'[t] = "pool_restart" =>
         /\ global_auto_restart
         /\ PoolConfig(tloc[t].name).auto_restart]_vars

\* C23: once the bounded join of stop() has returned, stop() can go on and
\* return without a step of the loop thread, also while the loop thread keeps
\* the engine's lock inside a restart.
C23_StopNeverWaitsForLoop ==
  \A c \in Callers : cpc[c] = "stop_reset" => ENABLED StopReset(c)

\* stop() has been invoked on thread t: the run flag is cleared and the event
\* set while t is the engine's thread, or a later start() has replaced t
StopInvoked(t) ==
  /\ tpc[t] # "none"
  /\ t # monitor_thread \/ (~running /\ stop_event)

\* C25: a loop thread on which stop() has been invoked starts no new check
\* cycle, also when start() has been called again before the thread has ended.
C25_StoppedThreadStartsNoCycle ==
  [][\A t \in Threads : StopInvoked(t) /\ ~InCycle(t) => ~InCycle(t)']_vars

\* C26: the accounting of a healthy probe of a configured target that has no
\* state entry yet creates the entry with status ok (site) or running (pool),
\* fail_count 0 and total_checks 1, and counts no failure.
C26_LazyEntryAccounted ==
  [][\A t \in Threads :
       /\ tpc[t] = "site_acct" /\ tloc[t].res = "ok" /\ tloc[t].name \notin DOMAIN website_status
          /\ tpc'[t] # tpc[t] =>
            /\ website_status'[tloc[t].name].status = "ok"
            /\ website_status'[tloc[t].name].fail_count = 0
            /\ website_status'[tloc[t].name].total_checks = 1
            /\ status'.total_failures = status.total_failures
            /\ tpc'[t] = "sites"
       /\ tpc[t] = "pool_acct" /\ tloc[t].res = "ok" /\ tloc[t].name \notin DOMAIN apppool_status
          /\ tpc'[t] # tpc[t] =>
            /\ apppool_status'[tloc[t].name].status = "running"
            /\ apppool_status'[tloc[t].name].fail_count = 0
            /\ apppool_status'[tloc[t].name].total_checks = 1
            /\ status'.total_failures = status.total_failures
            /\ tpc'[t] = "pools"]_vars

\* stop() has returned (or the engine was never started) and no start() or
\* stop() is in progress
StoppedQuiet ==
  /\ ~running
  /\ \A c \in Callers : cpc[c] \notin {"start_flag", "start_status", "start_init", "start_spawn",
                                        "stop_flag", "stop_event", "stop_join", "stop_reset",
                                        "stop_return"}

\* C27: while the engine is stopped and no start() or stop() is in progress,
\* no step changes a field of MonitorStatus: a loop thread that outlived
\* stop() leaves status stopped, start_time cleared, uptime_seconds 0 and the
\* counters as they are.
C27_StoppedStateStable ==
  [][StoppedQuiet => status' = status]_vars

\* C30: a bulk update whose text is rejected as a whole (not parseable, or no
\* JSON object) returns an error and leaves the map, the file and the state
\* table as they were.
C30_RejectedUpdateChangesNothing ==
  [][\A c \in Callers :
       /\ WebSaveFails(c) =>
            /\ cret'[c] \in {"web:json_error", "web:save_failed"}
            /\ UNCHANGED <<websites, config_file, website_status>>
       /\ PoolSaveFails(c) =>
            /\ cret'[c] \in {"pool:json_error", "pool:save_failed"}
            /\ UNCHANGED <<app_pools, config_file, apppool_status>>]_vars

\* ------------------------------------------------------------------ overlapping start() and stop()
\* The engine with one site and one pool and a threshold of one failure, its
\* start and stop buttons pressed by two foreground callers whose calls may
\* overlap; no configuration change.
LifecycleInit ==
  /\ websites = <<[name |-> "s1", enabled |-> TRUE]>>
  /\ app_pools = <<[name |-> "p1", enabled |-> TRUE, auto_restart |-> TRUE]>>
  /\ max_failures = 1
  /\ global_auto_restart = TRUE
  /\ config_file = ConfigData(websites, app_pools, max_failures, global_auto_restart)
  /\ running = FALSE
  /\ stop_event = FALSE
  /\ monitor_thread = 0
  /\ lock = 0
  /\ status = StoppedStatus
  /\ website_status = SeedTable(EmptyTable, websites)
  /\ apppool_status = SeedTable(EmptyTable, app_pools)
  /\ tpc = [t \in Threads |-> "none"]
  /\ tloc = [t \in Threads |-> NoLocals]
  /\ cpc = [c \in Callers |-> "idle"]
  /\ cloc = [c \in Callers |-> NoCall]
  /\ cret = [c \in Callers |-> "none"]
  /\ snap = NoSnapshot
  /\ nstarts = 0 /\ nprobes = 0 /\ ncalls = 0
  /\ limit = [probes |-> MaxProbes, calls |-> 0, lines |-> 0]
  /\ memory_logs = <<>>
  /\ recent = NoLines

LifecycleNext ==
  \/ \E t \in Threads : LoopStep(t)
  \/ \E c \in Callers :
        \/ StartCheck(c) \/ StartFlag(c) \/ StartStatus(c) \/ StartInit(c) \/ StartSpawn(c)
        \/ StopCheck(c) \/ StopFlag(c) \/ StopEvent(c) \/ StopJoin(c) \/ StopReset(c)
        \/ StopReturn(c) \/ Return(c)

LifecycleSpec == LifecycleInit /\ [][LifecycleNext]_vars

\* no start() and no stop() is in progress
NoLifecycleCall ==
  \A c \in Callers : cpc[c] \notin {"start_flag", "start_status", "start_init", "start_spawn",
                                     "stop_flag", "stop_event", "stop_join", "stop_reset",
                                     "stop_return"}

\* C29: whenever no start() or stop() is in progress, the run flag is true
\* exactly when MonitorStatus.status is running, and then start_time is set.
C29_FlagAndStatusAgree ==
  NoLifecycleCall =>
    /\ running <=> status.status = "running"
    /\ running => status.start_time # NoTime

\* ------------------------------------------------------------------ progress
\* The engine of Spec with a threshold of one failure, so that a single failed
\* probe leads to a restart, and with loop threads that keep going: every
\* probe, restart command and log call a loop thread is in returns.
FairInit ==
  /\ \E cfg \in LoadedConfigs :
       /\ websites = cfg.websites
       /\ app_pools = cfg.app_pools
  /\ max_failures = 1
  /\ global_auto_restart = TRUE
  /\ config_file = ConfigData(websites, app_pools, max_failures, global_auto_restart)
  /\ running = FALSE
  /\ stop_event = FALSE
  /\ monitor_thread = 0
  /\ lock = 0
  /\ status = StoppedStatus
  /\ website_status = SeedTable(EmptyTable, websites)
  /\ apppool_status = SeedTable(EmptyTable, app_pools)
  /\ tpc = [t \in Threads |-> "none"]
  /\ tloc = [t \in Threads |-> NoLocals]
  /\ cpc = [c \in Callers |-> "idle"]
  /\ cloc = [c \in Callers |-> NoCall]
  /\ cret = [c \in Callers |-> "none"]
  /\ snap = NoSnapshot
  /\ nstarts = 0 /\ nprobes = 0 /\ ncalls = 0
  /\ limit = [probes |-> FairProbes, calls |-> MaxCalls, lines |-> 0]
  /\ memory_logs = <<>>
  /\ recent = NoLines

FairSpec == FairInit /\ [][Next]_vars /\ \A t \in Threads : WF_vars(LoopStep(t))

\* a foreground caller waits for the engine's lock (stop(), _init_status)
WaitsForLock(c) == cpc[c] \in {"stop_reset", "start_init", "web_init", "pool_init"}

\* C28: no deadlock between the two locks. A thread inside log() for a restart
\* took the engine's lock first and takes no lock there; the thread that keeps
\* the engine's lock can always take its next step, keeps the lock from the
\* restart to the logging of its result and releases it then; a caller that
\* waits for the engine's lock goes on once it is free; and every loop thread
\* that has taken the engine's lock eventually releases it.
C28_NoDeadlock ==
  /\ [](\A t \in Threads : InLog(t) => lock = t)
  /\ [](\A t \in Threads : lock = t => ENABLED LoopStep(t))
  /\ [][\A t \in Threads :
          lock = t /\ tpc'[t] # tpc[t] =>
            IF tpc[t] \in {"site_restart", "pool_restart"}
              THEN InLog(t)' /\ lock' = t
              ELSE InLog(t) /\ lock' = 0]_vars
  /\ [](\A c \in Callers : WaitsForLock(c) /\ lock = 0 => ENABLED CallerStep(c))
  /\ \A t \in Threads : (lock = t) ~> (lock # t)

\* a caller's stop() waits for the engine's lock while a loop thread is inside
\* log() for the restart it has just made, holding both locks
C28_Witness ==
  /\ \E c \in Callers : cpc[c] = "stop_reset"
  /\ \E t \in Threads : InLog(t) /\ lock = t

====
